---- MODULE Spec2Model ----
(***************************************************************************)
(* A model of the Linux gamepad backend, internal/gamepad/gamepad_linux.go: *)
(* the prober (openGamepad), the directory watcher (nativeGamepads.update), *)
(* the per-device event reader (nativeGamepad.update), the absolute-state   *)
(* resynchronizer (pollAbsState) and the value normalisation                *)
(* (handleAbsEvent).  The kernel is the environment: device nodes, the      *)
(* process's descriptor table, the inotify queue, and the results of open,  *)
(* read and ioctl.                                                          *)
(***************************************************************************)
EXTENDS Integers, Sequences, FiniteSets, TLC

\* ---------------------------------------------------------------- constants
\* Linux input constants used by the source (values of <linux/input.h>).
EV_SYN == 0
EV_KEY == 1
EV_REL == 2
EV_ABS == 3
SYN_REPORT == 0
SYN_DROPPED == 3
BTN_MISC == 256
KEY_CNT == 768
ABS_CNT == 64
ABS_HAT0X == 16
ABS_HAT3Y == 23
\* the hat bits of the gamepad package
hatUp == 1
hatRight == 2
hatDown == 4
hatLeft == 8
\* the length of the hats array, [4]int
HatLen == 4
\* e.code is a uint16: e.code - _BTN_MISC wraps modulo 2^16
U16 == 65536

\* codes the devices of the model use
ABS_X == 0
ABS_Y == 1
ABS_HAT0Y == 17
ABS_HAT1X == 18
ABS_HAT1Y == 19
BTN_A == 304
BTN_B == 305
KEY_BACK == 158

\* byte(x) keeps the low 8 bits
ByteRange == 256
\* the name bytes of the fallback identifier, bs[0] .. bs[11]
SdlNameLen == 12

KeyLen == KEY_CNT - BTN_MISC
AbsCodes == 0 .. (ABS_CNT - 1)

\* ---------------------------------------------------------------- bounds
\* file descriptors the process can hold for devices: 1 .. MaxFd (0 is stdin)
MaxFd == 2
\* notifications the inotify queue holds at most
MaxInq == 2

\* ---------------------------------------------------------------- helpers
Min(S) == CHOOSE x \in S : \A y \in S : x <= y

Abs(n) == IF n < 0 THEN -n ELSE n

RECURSIVE GCD(_, _)
GCD(a, b) == IF b = 0 THEN a ELSE GCD(b, a % b)

\* A float64 axis value, kept exactly as a fraction in lowest terms.
Rat(n, d) ==
  LET s == IF d < 0 THEN -1 ELSE 1
      k == GCD(Abs(n), Abs(d))
  IN  [num |-> (s * n) \div k, den |-> (s * d) \div k]

RatZero == [num |-> 0, den |-> 1]

\* isBitSet: a capability bitmap is modelled as the set of its set bits
isBitSet(s, bit) == bit \in s

HasBit(h, b) == (h \div b) % 2 = 1
\* h |= b
OrBit(h, b) == IF HasBit(h, b) THEN h ELSE h + b
\* h &^= b
ClearBit(h, b) == IF HasBit(h, b) THEN h - b ELSE h

ZeroAbsInfo == [value |-> 0, minimum |-> 0, maximum |-> 0]

\* The zero value of a nativeGamepad (Go zero-initialises every field).
ZeroGamepad ==
  [ name |-> <<>>, sdlID |-> <<>>, path |-> "", fd |-> 0,
    keyMap |-> [k \in 0 .. (KeyLen - 1) |-> 0],
    absMap |-> [c \in AbsCodes |-> 0],
    absInfo |-> [c \in AbsCodes |-> ZeroAbsInfo],
    dropped |-> FALSE,
    axes |-> [i \in AbsCodes |-> RatZero],
    buttons |-> [k \in 0 .. (KeyLen - 1) |-> FALSE],
    hats |-> [i \in 0 .. (HatLen - 1) |-> 0],
    axisCount_ |-> 0, buttonCount_ |-> 0, hatCount_ |-> 0 ]

\* ---------------------------------------------------------------- handleAbsEvent
IsHatCode(code) == code >= ABS_HAT0X /\ code <= ABS_HAT3Y

\* an X case that sets a direction without clearing the opposite one
MutHatX(h, value) ==
  IF value < 0 THEN OrBit(h, hatLeft)
  ELSE IF value > 0 THEN OrBit(h, hatRight)
  ELSE ClearBit(ClearBit(h, hatLeft), hatRight)

\* the X case of the hat switch (lines 360-370)
HatX(h, value) ==
  IF value < 0 THEN ClearBit(OrBit(h, hatLeft), hatRight)
  ELSE IF value > 0 THEN OrBit(ClearBit(h, hatLeft), hatRight)
  ELSE ClearBit(ClearBit(h, hatLeft), hatRight)

\* the Y case of the hat switch (lines 371-381)
HatY(h, value) ==
  IF value < 0 THEN ClearBit(OrBit(h, hatUp), hatDown)
  ELSE IF value > 0 THEN OrBit(ClearBit(h, hatUp), hatDown)
  ELSE ClearBit(ClearBit(h, hatUp), hatDown)

\* lines 386-391: v is the raw value unless the range is non-zero
Normalize(info, value) ==
  LET r == info.maximum - info.minimum
  IN  IF r # 0 THEN Rat(2 * (value - info.minimum) - r, r)
      ELSE Rat(value, 1)

\* handleAbsEvent indexes hats or axes with absMap[code]: Go panics when the
\* index is out of range
AbsPanics(g, code) ==
  \/ code \notin AbsCodes
  \/ g.absMap[code] < 0
  \/ IsHatCode(code) /\ g.absMap[code] >= HatLen

handleAbsEvent(g, code, value) ==
  LET index == g.absMap[code]
  IN  IF IsHatCode(code)
      THEN IF (code - ABS_HAT0X) % 2 = 0
           THEN [g EXCEPT !.hats[index] = HatX(@, value)]
           ELSE [g EXCEPT !.hats[index] = HatY(@, value)]
      ELSE [g EXCEPT !.axes[index] = Normalize(g.absInfo[code], value)]

\* axisValue (lines 411-416)
axisValue(g, axis) ==
  IF axis < 0 \/ axis >= g.axisCount_ THEN RatZero ELSE g.axes[axis]

\* ---------------------------------------------------------------- pollAbsState
\* rep: what EVIOCGABS reports for each code; failCode: the code whose
\* EVIOCGABS fails (-1: none).  The result is [g, err].  The loop runs over the
\* codes from `from` up; the codes with absMap[code] < 0 are skipped.
RECURSIVE PollLoop(_, _, _, _)
PollLoop(g, from, rep, failCode) ==
  LET S == {c \in from .. (ABS_CNT - 1) : g.absMap[c] >= 0}
  IN  IF S = {} THEN [g |-> g, err |-> "nil"]
      ELSE LET code == Min(S)
           IN  IF code = failCode
               THEN [g |-> g, err |-> "ioctl abs at pollAbsState"]
               ELSE PollLoop(handleAbsEvent([g EXCEPT !.absInfo[code] = rep[code]],
                                            code, rep[code].value),
                             code + 1, rep, failCode)

pollAbsState(g, rep, failCode) == PollLoop(g, 0, rep, failCode)

\* ---------------------------------------------------------------- identity
\* Strings are sequences of bytes; formatted text is a sequence of characters.
\* "Unknown"
Unknown == <<85, 110, 107, 110, 111, 119, 110>>

\* ioctl EVIOCGNAME(len) into the zeroed buffer cname, then
\* ByteSliceToString(cname): the kernel copies at most len bytes of the
\* device's name, and the string ends at the first zero byte
EVIOCGNAME(devName, len) == SubSeq(devName, 1, IF Len(devName) < len THEN Len(devName) ELSE len)

\* lines 144-148: len(name) is the length of "Unknown"
QueryName(devName, fails) ==
  IF fails THEN Unknown ELSE EVIOCGNAME(devName, Len(Unknown))

\* fmt.Sprintf("%02x", b) for a byte b
HexDigits == <<"0", "1", "2", "3", "4", "5", "6", "7", "8", "9",
               "a", "b", "c", "d", "e", "f">>
Hex2(b) == <<HexDigits[(b \div 16) + 1], HexDigits[(b % 16) + 1]>>
\* "%02x%02x" of byte(w), byte(w>>8)
HexWord(w) == Hex2(w % ByteRange) \o Hex2((w \div ByteRange) % ByteRange)
Zeros4 == <<"0", "0", "0", "0">>

RECURSIVE HexBytes(_, _)
HexBytes(bs, n) == IF n = 0 THEN <<>> ELSE HexBytes(bs, n - 1) \o Hex2(bs[n])

\* lines 158-161: bs padded with zero bytes up to 12
PadName(name) ==
  IF Len(name) < SdlNameLen
  THEN name \o [k \in 1 .. (SdlNameLen - Len(name)) |-> 0]
  ELSE name

\* lines 150-165
SdlID(id, name) ==
  IF id.vendor # 0 /\ id.product # 0 /\ id.version # 0
  THEN HexWord(id.bustype) \o Zeros4 \o HexWord(id.vendor) \o Zeros4
       \o HexWord(id.product) \o Zeros4 \o HexWord(id.version) \o Zeros4
  ELSE HexWord(id.bustype) \o Zeros4 \o HexBytes(PadName(name), SdlNameLen)

\* ---------------------------------------------------------------- registry
\* gamepads.find: the index of the first entry with the path, 0 for nil
find(gs, path) ==
  IF \E i \in 1 .. Len(gs) : gs[i].path = path
  THEN Min({i \in 1 .. Len(gs) : gs[i].path = path})
  ELSE 0

\* gamepads.add: the new entry is appended
add(gs, g) == Append(gs, g)

\* gamepads.remove: the entry at index i is taken out
remove(gs, i) == [k \in 1 .. (Len(gs) - 1) |-> IF k < i THEN gs[k] ELSE gs[k + 1]]

\* ---------------------------------------------------------------- kernel
NoFile == [path |-> "", alive |-> FALSE]
FdRange == 1 .. MaxFd
FreeFds(fdt) == {fd \in FdRange : fdt[fd] = NoFile}
\* unix.Close: closing a descriptor that is not open fails with EBADF
unixClose(fdt, fd) == IF fd \in FdRange THEN [fdt EXCEPT ![fd] = NoFile] ELSE fdt

\* ---------------------------------------------------------------- openGamepad
\* lines 177-183: the key codes from _BTN_MISC up, in ascending order; absent
\* codes are skipped, S is the set of present codes not yet visited
RECURSIVE KeyLoop(_, _, _)
KeyLoop(S, keyMap, buttonCount) ==
  IF S = {} THEN [keyMap |-> keyMap, buttonCount |-> buttonCount]
  ELSE LET code == Min(S)
       IN  KeyLoop(S \ {code},
                   [keyMap EXCEPT ![code - BTN_MISC] = buttonCount],
                   buttonCount + 1)

\* the step of the loop variable after a hat code: "code++" and the loop's own
HatStep(code) == code + 2

\* absMap[code] = -1 for the codes from..(to-1), which the loop passes without
\* a set bit
Unmap(absMap, from, to) ==
  [c \in AbsCodes |-> IF c >= from /\ c < to THEN -1 ELSE absMap[c]]

\* lines 184-201: st is [g, err, axisCount, hatCount]; the loop runs over the
\* codes from `from` up, code is the next one whose bit is set
RECURSIVE AbsLoop(_, _, _, _, _)
AbsLoop(st, from, absBits, rep, failCode) ==
  LET S == {c \in from .. (ABS_CNT - 1) : isBitSet(absBits, c)}
  IN  IF S = {}
      THEN [st EXCEPT !.g.absMap = Unmap(@, from, ABS_CNT)]
      ELSE LET code == Min(S)
               g1 == [st.g EXCEPT !.absMap = Unmap(@, from, code + 1)]
           IN  IF IsHatCode(code)
               THEN AbsLoop([st EXCEPT !.g = [g1 EXCEPT !.absMap[code] = st.hatCount],
                                       !.hatCount = @ + 1],
                            HatStep(code), absBits, rep, failCode)
               ELSE IF code = failCode
               THEN [st EXCEPT !.g = g1, !.err = "ioctl abs at openGamepad"]
               ELSE AbsLoop([st EXCEPT !.g = [g1 EXCEPT !.absInfo[code] = rep[code],
                                                        !.absMap[code] = st.axisCount],
                                       !.axisCount = @ + 1],
                            code + 1, absBits, rep, failCode)

\* a check that rejects only the device with neither
MutIsGamepad(evBits) == isBitSet(evBits, EV_KEY) \/ isBitSet(evBits, EV_ABS)
\* lines 134-141: the device is kept only with EV_KEY and with EV_ABS
IsGamepad(evBits) == isBitSet(evBits, EV_KEY) /\ isBitSet(evBits, EV_ABS)

\* a prober without the lookup
MutKnown(gs, path) == FALSE
\* lines 93-98: a path of the registry is not probed again
Known(gs, path) == find(gs, path) # 0

\* lines 167-212, after gamepads.add: the entry gp is filled in place, so what
\* the registry holds at a return is gp as it is then.  The deferred function
\* of lines 111-115 closes fd when err is not nil.
Register(gs, fdt, d, path, fd, in) ==
  LET name == QueryName(d.name, in.nameFails)
      gp0 == [ZeroGamepad EXCEPT !.name = name, !.sdlID = SdlID(d.id, name),
                                 !.path = path, !.fd = fd]
      keys == KeyLoop({c \in d.key : c >= BTN_MISC /\ c < KEY_CNT},
                      gp0.keyMap, 0)
      gp1 == [gp0 EXCEPT !.keyMap = keys.keyMap]
      loop == AbsLoop([g |-> gp1, err |-> "nil", axisCount |-> 0, hatCount |-> 0],
                      0, d.abs, in.rep,
                      IF in.fail = "loop" THEN in.failCode ELSE -1)
      gp2 == [loop.g EXCEPT !.axisCount_ = loop.axisCount,
                            !.buttonCount_ = keys.buttonCount,
                            !.hatCount_ = loop.hatCount]
      poll == pollAbsState(gp2, in.rep,
                           IF in.fail = "poll" THEN in.failCode ELSE -1)
  IN  IF loop.err # "nil"
      THEN [gamepads |-> add(gs, loop.g), fds |-> unixClose(fdt, fd),
            err |-> loop.err, exit |-> 197]
      ELSE IF poll.err # "nil"
      THEN [gamepads |-> add(gs, poll.g), fds |-> unixClose(fdt, fd),
            err |-> poll.err, exit |-> 208]
      ELSE [gamepads |-> add(gs, poll.g), fds |-> fdt, err |-> "nil", exit |-> 211]

\* openGamepad(gamepads, path) on the registry gs and descriptor table fdt;
\* d is the device at the path, in the results of its system calls.
\* The result is [gamepads, fds, err, exit]: exit is the line of the return.
openGamepad(gs, fdt, d, path, in) ==
  IF Known(gs, path)
  THEN [gamepads |-> gs, fds |-> fdt, err |-> "nil", exit |-> 97]
  ELSE IF in.open = "EACCES"
  THEN [gamepads |-> gs, fds |-> fdt, err |-> "nil", exit |-> 103]
  ELSE IF in.open = "ENOENT"
  THEN [gamepads |-> gs, fds |-> fdt, err |-> "nil", exit |-> 107]
  ELSE IF in.open # "ok"
  THEN [gamepads |-> gs, fds |-> fdt, err |-> "Open failed", exit |-> 109]
  ELSE LET fd == Min(FreeFds(fdt))
           fdt1 == [fdt EXCEPT ![fd] = [path |-> path, alive |-> TRUE]]
       IN  IF in.fail \in {"evBits", "keyBits", "absBits", "id"}
           THEN [gamepads |-> gs, fds |-> unixClose(fdt1, fd),
                 err |-> in.fail, exit |-> 122]
           ELSE IF ~IsGamepad(d.ev)
           THEN [gamepads |-> gs, fds |-> unixClose(fdt1, fd),
                 err |-> "nil", exit |-> 136]
           ELSE Register(gs, fdt1, d, path, fd, in)

\* ---------------------------------------------------------------- devices
\* A device node: its capability bitmaps (sets of bits), the calibration of its
\* absolute axes, the raw values EVIOCGABS reports for them, and the events it
\* sends.
\* "Pad"
PadName3 == <<80, 97, 100>>
\* a USB device: bus type 3, with vendor, product and version
UsbId == [bustype |-> 3, vendor |-> 1118, product |-> 654, version |-> 272]

\* id, name: what EVIOCGID and EVIOCGNAME report; nameErr: whether EVIOCGNAME
\* can fail on the device
Device(ev, key, abs, calib, vals, sends) ==
  [ev |-> ev, key |-> key, abs |-> abs, calib |-> calib, vals |-> vals,
   sends |-> sends, id |-> UsbId, name |-> PadName3, nameErr |-> {FALSE}]

Event(typ, code, value) == [kind |-> "event", typ |-> typ, code |-> code, value |-> value]
ReadError(k) == [kind |-> k, typ |-> 0, code |-> 0, value |-> 0]

NoCalib == [minimum |-> 0, maximum |-> 0]

SynEvents == {Event(EV_SYN, SYN_REPORT, 0), Event(EV_SYN, SYN_DROPPED, 0)}
KeyEvents(codes) == {Event(EV_KEY, c, v) : c \in codes, v \in {0, 1}}
AbsEvents(codes, values) == {Event(EV_ABS, c, v) : c \in codes, v \in values}

\* a pad with one button and one axis without a range, at rest
PlainPad ==
  Device({EV_SYN, EV_KEY, EV_ABS}, {BTN_A}, {ABS_X},
         [c \in {ABS_X} |-> NoCalib], [c \in {ABS_X} |-> {0}],
         {Event(EV_SYN, SYN_REPORT, 0)})
\* a keyboard: keys, no absolute axes
KeysOnly == Device({EV_SYN, EV_KEY}, {BTN_A}, {}, <<>>, <<>>, {})
\* a tablet: absolute axes, no keys
AbsOnly ==
  Device({EV_SYN, EV_ABS}, {}, {ABS_X},
         [c \in {ABS_X} |-> NoCalib], [c \in {ABS_X} |-> {0}], {})
\* a mouse: neither
RelOnly == Device({EV_SYN, EV_REL}, {}, {}, <<>>, <<>>, {})

\* a pad with a calibrated axis (1..3; it also reports 4) and an axis without
\* a range; it also sends key codes that its key bitmap does not hold
AxesPad ==
  Device({EV_SYN, EV_KEY, EV_REL, EV_ABS}, {BTN_A}, {ABS_X, ABS_Y},
         [c \in {ABS_X, ABS_Y} |->
            IF c = ABS_X THEN [minimum |-> 1, maximum |-> 3] ELSE NoCalib],
         [c \in {ABS_X, ABS_Y} |-> IF c = ABS_X THEN {1, 2, 3, 4} ELSE {0, 5}],
         SynEvents \cup KeyEvents({BTN_A}) \cup {Event(EV_REL, 0, 1)}
         \cup {Event(EV_KEY, BTN_B, 1), Event(EV_KEY, KEY_BACK, 1)}
         \cup AbsEvents({ABS_X}, {1, 2, 3, 4}) \cup AbsEvents({ABS_Y}, {0, 5}))
\* a pad with two directional pads
HatPad ==
  Device({EV_SYN, EV_KEY, EV_ABS}, {BTN_A},
         {ABS_HAT0X, ABS_HAT0Y, ABS_HAT1X, ABS_HAT1Y},
         [c \in {ABS_HAT0X, ABS_HAT0Y, ABS_HAT1X, ABS_HAT1Y} |->
            [minimum |-> -1, maximum |-> 1]],
         [c \in {ABS_HAT0X, ABS_HAT0Y, ABS_HAT1X, ABS_HAT1Y} |->
            IF c = ABS_HAT0X THEN {0, 1} ELSE IF c = ABS_HAT1Y THEN {-1, 0} ELSE {0}],
         SynEvents \cup AbsEvents({ABS_HAT0X, ABS_HAT0Y}, {-1, 0, 1})
         \cup AbsEvents({ABS_HAT1X, ABS_HAT1Y}, {0, 1}))

\* the device nodes of the directory, in ReadDir's (sorted) order
PathSeq == <<"/dev/input/event0", "/dev/input/event1">>
Paths == {PathSeq[i] : i \in 1 .. Len(PathSeq)}
\* directory entries that are no event device
OtherNames == {"/dev/input/js0"}
\* reEvent.MatchString on the entry's name
reEventMatch(name) == name \in Paths

\* what EVIOCGABS can report for the codes of device d
Reports(d) ==
  { [c \in AbsCodes |->
       IF c \in d.abs
       THEN [value |-> f[c], minimum |-> d.calib[c].minimum,
             maximum |-> d.calib[c].maximum]
       ELSE ZeroAbsInfo] :
    f \in {h \in [d.abs -> UNION {d.vals[c] : c \in d.abs}] :
             \A c \in d.abs : h[c] \in d.vals[c]} }

ZeroRep == [c \in AbsCodes |-> ZeroAbsInfo]

\* the results of the system calls of one openGamepad call on device d
In(open, fail, failCode, rep) ==
  [open |-> open, fail |-> fail, failCode |-> failCode, rep |-> rep,
   nameFails |-> FALSE]

OpenInputs(d, isPresent, fdt) ==
  IF ~isPresent THEN {In("ENOENT", "none", -1, ZeroRep)}
  ELSE {In(o, "none", -1, ZeroRep) : o \in {"EACCES", "EMFILE"}}
       \cup IF FreeFds(fdt) = {} THEN {}
            ELSE {In("ok", f, -1, ZeroRep) :
                    f \in {"evBits", "keyBits", "absBits", "id"}}
                 \cup {[In("ok", "none", -1, r) EXCEPT !.nameFails = b] :
                         r \in Reports(d), b \in d.nameErr}
                 \cup {In("ok", f, c, r) :
                         f \in {"loop", "poll"}, c \in d.abs, r \in Reports(d)}

\* ---------------------------------------------------------------- state
VARIABLES
  present,   \* kernel: the device nodes that exist
  dev,       \* kernel: the device behind each path
  fds,       \* kernel: the process's descriptor table
  inq,       \* kernel: the notifications queued on the inotify descriptor
  inotify,   \* nativeGamepads.inotify
  gamepads,  \* the registry, in insertion order
  pc,        \* where the program is: [at, i, buf]
  last,      \* the last step: the call made and the results of its system calls
  atDrop     \* history: per path, the buttons, axes and hats when dropped was
             \* set, and whether an event was discarded since

vars == <<present, dev, fds, inq, inotify, gamepads, pc, last, atDrop>>

At(at, i, buf) == [at |-> at, i |-> i, buf |-> buf]
Idle == At("idle", 0, <<>>)
Note(mask, name) == [mask |-> mask, name |-> name]

\* op: the function the step belongs to; err: what it returned ("running" while
\* its loop goes on); path, exit, perr: the path, return line and result of the
\* openGamepad call of the step (exit 0: none); e: what read returned; rep,
\* failCode: what EVIOCGABS answered to the resynchronization of update; idx:
\* the entry that the gamepads.find of a delete notification found (0: none);
\* nameFails: whether the EVIOCGNAME of the openGamepad call failed.
NoStep ==
  [op |-> "none", err |-> "nil", path |-> "", exit |-> 0, perr |-> "nil",
   e |-> ReadError("none"), rep |-> ZeroRep, failCode |-> -1, idx |-> 0,
   nameFails |-> FALSE]
Step(op, err) == [NoStep EXCEPT !.op = op, !.err = err]

\* what the application reads of a gamepad
Obs(g) == [buttons |-> g.buttons, axes |-> g.axes, hats |-> g.hats]
NoObs == [buttons |-> <<>>, axes |-> <<>>, hats |-> <<>>]
NoDrop == [obs |-> NoObs, skipped |-> FALSE]

\* the history of a path is kept while an entry with the path is dropped
KeepDrop(gs, h) ==
  [p \in Paths |->
     IF \E i \in 1 .. Len(gs) : gs[i].path = p /\ gs[i].dropped
     THEN h[p] ELSE NoDrop]

\* ---------------------------------------------------------------- environment
\* The program is single-threaded and its handlers do not block: a change of
\* the environment is taken between two handlers.
Quiet == pc.at \in {"start", "idle"}

\* a device node appears
Plug(p) ==
  /\ Quiet /\ ~present[p]
  /\ present' = [present EXCEPT ![p] = TRUE]
  /\ inotify > 0 => Len(inq) < MaxInq
  /\ inq' = IF inotify > 0 THEN Append(inq, Note({"IN_CREATE"}, p)) ELSE inq
  /\ last' = Step("env", "nil")
  /\ UNCHANGED <<dev, fds, inotify, gamepads, pc, atDrop>>

\* udev changes the attributes of a node
Attrib(p) ==
  /\ Quiet /\ present[p]
  /\ inotify > 0 /\ Len(inq) < MaxInq
  /\ inq' = Append(inq, Note({"IN_ATTRIB"}, p))
  /\ last' = Step("env", "nil")
  /\ UNCHANGED <<present, dev, fds, inotify, gamepads, pc, atDrop>>

\* a device node disappears: reads of its open descriptors fail with ENODEV
Unplug(p) ==
  /\ Quiet /\ present[p]
  /\ present' = [present EXCEPT ![p] = FALSE]
  /\ fds' = [fd \in FdRange |->
               IF fds[fd].path = p THEN [fds[fd] EXCEPT !.alive = FALSE] ELSE fds[fd]]
  /\ inotify > 0 => Len(inq) < MaxInq
  /\ inq' = IF inotify > 0 THEN Append(inq, Note({"IN_DELETE"}, p)) ELSE inq
  /\ last' = Step("env", "nil")
  /\ UNCHANGED <<dev, inotify, gamepads, pc, atDrop>>

\* another entry of the directory is created
OtherEntry(n) ==
  /\ Quiet
  /\ inotify > 0 /\ Len(inq) < MaxInq
  /\ inq' = Append(inq, Note({"IN_CREATE"}, n))
  /\ last' = Step("env", "nil")
  /\ UNCHANGED <<present, dev, fds, inotify, gamepads, pc, atDrop>>

\* ---------------------------------------------------------------- init
\* nativeGamepads.init up to ReadDir (lines 45-77)
NativeInit(dirExists) ==
  /\ pc.at = "start"
  /\ IF ~dirExists
     THEN /\ \A p \in Paths : ~present[p]
          /\ pc' = Idle /\ last' = Step("init", "nil") /\ UNCHANGED inotify
     ELSE LET ents == SelectSeq(PathSeq, LAMBDA p : present[p])
          IN  /\ inotify' = 3
              /\ IF ents = <<>>
                 THEN pc' = Idle /\ last' = Step("init", "nil")
                 ELSE /\ pc' = At("init", 0, [k \in 1 .. Len(ents) |-> Note({}, ents[k])])
                      /\ last' = Step("init", "running")
  /\ UNCHANGED <<present, dev, fds, inq, gamepads, atDrop>>

\* one openGamepad call and what the caller's loop does with its result
\* (lines 85-87 and 244-247)
ProbeStep(op, path, in) ==
  LET r == openGamepad(gamepads, fds, dev[path], path, in)
      err == IF r.err # "nil" THEN r.err
             ELSE IF Len(pc.buf) = 1 THEN "nil" ELSE "running"
  IN  /\ gamepads' = r.gamepads
      /\ fds' = r.fds
      /\ atDrop' = KeepDrop(r.gamepads, atDrop)
      /\ last' = [Step(op, err) EXCEPT !.path = path, !.exit = r.exit,
                                       !.perr = r.err, !.nameFails = in.nameFails]
      /\ pc' = IF err = "running" THEN [pc EXCEPT !.buf = Tail(@)] ELSE Idle

\* one iteration of the loop of init (lines 78-88)
InitStep ==
  /\ pc.at = "init"
  /\ \E in \in OpenInputs(dev[pc.buf[1].name], present[pc.buf[1].name], fds) :
       ProbeStep("init", pc.buf[1].name, in)
  /\ UNCHANGED <<present, dev, inq, inotify>>

\* ---------------------------------------------------------------- watcher
\* a close that also resets the gamepad to its zero value
MutCloseReset(gs, fdt, i) ==
  [gamepads |-> [gs EXCEPT ![i] = [ZeroGamepad EXCEPT !.path = gs[i].path]],
   fds |-> IF gs[i].fd # 0 THEN unixClose(fdt, gs[i].fd) ELSE fdt]

\* a close that leaves the handle field as it is
MutClose(gs, fdt, i) ==
  [gamepads |-> gs,
   fds |-> IF gs[i].fd # 0 THEN unixClose(fdt, gs[i].fd) ELSE fdt]

\* nativeGamepad.close (lines 282-287) on entry i; the result is [gamepads, fds]
close(gs, fdt, i) ==
  [gamepads |-> [gs EXCEPT ![i].fd = 0],
   fds |-> IF gs[i].fd # 0 THEN unixClose(fdt, gs[i].fd) ELSE fdt]

\* nativeGamepads.update up to the loop (lines 214-227): the read takes the
\* whole queue
WatcherUpdate(readErr) ==
  /\ pc.at = "idle"
  /\ IF inotify <= 0
     THEN ~readErr /\ last' = Step("watcher", "nil") /\ UNCHANGED <<pc, inq>>
     ELSE IF readErr
     THEN last' = Step("watcher", "Read failed") /\ UNCHANGED <<pc, inq>>
     ELSE IF inq = <<>>
     THEN last' = Step("watcher", "nil") /\ UNCHANGED <<pc, inq>>
     ELSE pc' = At("watch", 0, inq) /\ inq' = <<>> /\ last' = Step("watcher", "running")
  /\ UNCHANGED <<present, dev, fds, inotify, gamepads, atDrop>>

\* a delete branch that closes the gamepad and leaves it in the registry
MutForget(gs, fdt, path) ==
  LET i == find(gs, path)
  IN  IF i = 0 THEN [gamepads |-> gs, fds |-> fdt]
      ELSE close(gs, fdt, i)

\* the entry that a delete notification removes (lines 249-259)
Forget(gs, fdt, path) ==
  LET i == find(gs, path)
  IN  IF i = 0 THEN [gamepads |-> gs, fds |-> fdt]
      ELSE [gamepads |-> remove(close(gs, fdt, i).gamepads, i),
            fds |-> close(gs, fdt, i).fds]

\* one iteration of the loop of nativeGamepads.update (lines 229-260)
WatchStep ==
  /\ pc.at = "watch"
  /\ LET e == pc.buf[1]
         err == IF Len(pc.buf) = 1 THEN "nil" ELSE "running"
         next == IF Len(pc.buf) = 1 THEN Idle ELSE [pc EXCEPT !.buf = Tail(@)]
     IN  IF ~reEventMatch(e.name)
         THEN /\ pc' = next /\ last' = Step("watcher", err)
              /\ UNCHANGED <<gamepads, fds, atDrop>>
         ELSE IF e.mask \cap {"IN_CREATE", "IN_ATTRIB"} # {}
         THEN \E in \in OpenInputs(dev[e.name], present[e.name], fds) :
                ProbeStep("watcher", e.name, in)
         ELSE IF "IN_DELETE" \in e.mask
         THEN LET r == Forget(gamepads, fds, e.name)
              IN  /\ gamepads' = r.gamepads /\ fds' = r.fds
                  /\ atDrop' = KeepDrop(r.gamepads, atDrop)
                  /\ pc' = next
                  /\ last' = [Step("watcher", err) EXCEPT
                                !.path = e.name, !.idx = find(gamepads, e.name)]
         ELSE /\ pc' = next /\ last' = Step("watcher", err)
              /\ UNCHANGED <<gamepads, fds, atDrop>>
  /\ UNCHANGED <<present, dev, inq, inotify>>

\* ---------------------------------------------------------------- update
\* uint16 subtraction: e.code - _BTN_MISC
KeyIndex(code) == (code - BTN_MISC + U16) % U16

\* lines 329-335 index keyMap with the wrapped difference, and handleAbsEvent
\* indexes with absMap[code]: Go panics when an index is out of range
EventPanics(g, e) ==
  \/ e.typ = EV_KEY /\ KeyIndex(e.code) >= KeyLen
  \/ e.typ = EV_ABS /\ AbsPanics(g, e.code)

\* a report-complete event that clears dropped without resynchronizing
MutSync(g, e, rep, failCode) ==
  IF e.typ = EV_SYN /\ e.code = SYN_DROPPED THEN [g EXCEPT !.dropped = TRUE]
  ELSE IF e.typ = EV_SYN /\ e.code = SYN_REPORT THEN [g EXCEPT !.dropped = FALSE]
  ELSE g

\* lines 316-324: what a synchronization event does
Sync(g, e, rep, failCode) ==
  IF e.typ = EV_SYN /\ e.code = SYN_DROPPED THEN [g EXCEPT !.dropped = TRUE]
  ELSE IF e.typ = EV_SYN /\ e.code = SYN_REPORT
  THEN pollAbsState([g EXCEPT !.dropped = FALSE], rep, failCode).g
  ELSE g

\* lines 329-335: what an event does when the gamepad is not dropped
Apply(g, e) ==
  IF e.typ = EV_KEY
  THEN [g EXCEPT !.buttons[g.keyMap[KeyIndex(e.code)]] = (e.value # 0)]
  ELSE IF e.typ = EV_ABS THEN handleAbsEvent(g, e.code, e.value)
  ELSE g

\* a loop body without the "if g.dropped { continue }" of lines 325-327
MutHandleEvent(g, e, rep, failCode) == Apply(Sync(g, e, rep, failCode), e)

\* the body of the loop for an event that was read (lines 316-335)
HandleEvent(g, e, rep, failCode) ==
  LET g1 == Sync(g, e, rep, failCode)
  IN  IF g1.dropped THEN g1 ELSE Apply(g1, e)

\* nativeGamepad.update of entry i up to the loop (lines 289-293)
UpdateCall(i) ==
  /\ pc.at = "idle"
  /\ i \in 1 .. Len(gamepads)
  /\ IF gamepads[i].fd = 0
     THEN /\ last' = [Step("update", "nil") EXCEPT !.path = gamepads[i].path]
          /\ UNCHANGED pc
     ELSE /\ pc' = At("update", i, <<>>)
          /\ last' = [Step("update", "running") EXCEPT !.path = gamepads[i].path]
  /\ UNCHANGED <<present, dev, fds, inq, inotify, gamepads, atDrop>>

\* what read can return on the descriptor fd
ReadResults(fdt, fd) ==
  IF fdt[fd] = NoFile THEN {ReadError("EBADF")}
  ELSE IF ~fdt[fd].alive THEN {ReadError("ENODEV")}
  ELSE {ReadError("EAGAIN"), ReadError("EIO")} \cup dev[fdt[fd].path].sends

\* the step of update that read e; err is what update returns
Read(g, e, err) == [Step("update", err) EXCEPT !.path = g.path, !.e = e]

\* one iteration of the loop of nativeGamepad.update (lines 294-336)
UpdateRead ==
  /\ pc.at = "update"
  /\ LET i == pc.i
         g == gamepads[i]
     IN  \E e \in ReadResults(fds, g.fd) :
           IF e.kind = "EAGAIN"
           THEN /\ pc' = Idle /\ last' = Read(g, e, "nil")
                /\ atDrop' = KeepDrop(gamepads, atDrop)
                /\ UNCHANGED <<gamepads, fds>>
           ELSE IF e.kind = "ENODEV"
           THEN /\ gamepads' = close(gamepads, fds, i).gamepads
                /\ fds' = close(gamepads, fds, i).fds
                /\ pc' = Idle /\ last' = Read(g, e, "nil")
                /\ atDrop' = KeepDrop(gamepads, atDrop)
           ELSE IF e.kind # "event"
           THEN /\ pc' = Idle /\ last' = Read(g, e, "Read failed")
                /\ atDrop' = KeepDrop(gamepads, atDrop)
                /\ UNCHANGED <<gamepads, fds>>
           ELSE IF e.typ = EV_SYN /\ e.code = SYN_REPORT
           THEN \E rep \in Reports(dev[fds[g.fd].path]),
                   failCode \in {-1} \cup dev[fds[g.fd].path].abs :
                  /\ last' = [Read(g, e, "running") EXCEPT
                                !.rep = rep, !.failCode = failCode]
                  /\ gamepads' = [gamepads EXCEPT
                                    ![i] = HandleEvent(g, e, rep, failCode)]
                  /\ atDrop' = IF g.dropped THEN atDrop
                               ELSE KeepDrop(gamepads, atDrop)
                  /\ UNCHANGED <<pc, fds>>
           ELSE IF ~Sync(g, e, ZeroRep, -1).dropped /\ EventPanics(g, e)
           THEN /\ pc' = At("panic", i, <<>>) /\ last' = Read(g, e, "panic")
                /\ UNCHANGED <<gamepads, fds, atDrop>>
           ELSE /\ gamepads' = [gamepads EXCEPT ![i] = HandleEvent(g, e, ZeroRep, -1)]
                /\ atDrop' = IF e.typ = EV_SYN /\ e.code = SYN_DROPPED /\ ~g.dropped
                             THEN [atDrop EXCEPT ![g.path] =
                                     [obs |-> Obs(g), skipped |-> FALSE]]
                             ELSE IF g.dropped /\ e.typ # EV_SYN
                             THEN [atDrop EXCEPT ![g.path].skipped = TRUE]
                             ELSE KeepDrop(gamepads, atDrop)
                /\ last' = Read(g, e, "running")
                /\ UNCHANGED <<pc, fds>>
  /\ UNCHANGED <<present, dev, inq, inotify>>

\* ---------------------------------------------------------------- specifications
\* The state before nativeGamepads.init: every node exists, the registry is
\* empty.  first, second: the devices the two nodes can be.
InitWith(first, second) ==
  /\ dev \in {f \in [Paths -> first \cup second] :
                f[PathSeq[1]] \in first /\ f[PathSeq[2]] \in second}
  /\ present = [p \in Paths |-> TRUE]
  /\ fds = [fd \in FdRange |-> NoFile]
  /\ inq = <<>>
  /\ inotify = 0
  /\ gamepads = <<>>
  /\ pc = At("start", 0, <<>>)
  /\ last = NoStep
  /\ atDrop = [p \in Paths |-> NoDrop]

Init == InitWith({PlainPad}, {PlainPad, KeysOnly, AbsOnly, RelOnly})

Env ==
  \/ \E p \in Paths : Plug(p)
  \/ \E p \in Paths : Attrib(p)
  \/ \E p \in Paths : Unplug(p)
  \/ \E n \in OtherNames : OtherEntry(n)

Next ==
  \/ Env
  \/ \E b \in BOOLEAN : NativeInit(b)
  \/ InitStep
  \/ \E b \in BOOLEAN : WatcherUpdate(b)
  \/ WatchStep
  \/ \E i \in 1 .. Len(gamepads) : UpdateCall(i)
  \/ UpdateRead

Spec == Init /\ [][Next]_vars

\* The event reader on one pad with traffic: init probes the nodes, then the
\* pads of the registry are updated.
InitEv == InitWith({AxesPad, HatPad}, {RelOnly})

NextEv ==
  \/ \E b \in BOOLEAN : NativeInit(b)
  \/ InitStep
  \/ \E i \in 1 .. Len(gamepads) : UpdateCall(i)
  \/ UpdateRead

SpecEv == InitEv /\ [][NextEv]_vars

\* The prober on one node with any capability bitmaps over a few codes.
ABS_PRESSURE == 24
KEY_MAX == 767

MapDevices ==
  { Device({EV_SYN, EV_KEY, EV_ABS}, key, abs,
           [c \in abs |-> NoCalib], [c \in abs |-> {0}], {}) :
    key \in SUBSET {KEY_BACK, BTN_MISC, KEY_MAX},
    abs \in SUBSET {ABS_X, ABS_HAT0X, ABS_HAT0Y, ABS_HAT1X, ABS_HAT1Y,
                    ABS_HAT3Y, ABS_PRESSURE} }

InitMap == InitWith(MapDevices, {RelOnly})

NextMap ==
  \/ \E b \in BOOLEAN : NativeInit(b)
  \/ InitStep

SpecMap == InitMap /\ [][NextMap]_vars

\* The whole backend on one pad with traffic: the watcher, the event reader
\* and the environment together.
MixPad ==
  Device({EV_SYN, EV_KEY, EV_ABS}, {BTN_A}, {ABS_X, ABS_HAT0X},
         [c \in {ABS_X, ABS_HAT0X} |->
            IF c = ABS_X THEN [minimum |-> 0, maximum |-> 2]
            ELSE [minimum |-> -1, maximum |-> 1]],
         [c \in {ABS_X, ABS_HAT0X} |-> IF c = ABS_X THEN {0, 2} ELSE {0}],
         SynEvents \cup {Event(EV_KEY, BTN_A, 1)}
         \cup AbsEvents({ABS_X}, {1}) \cup AbsEvents({ABS_HAT0X}, {1}))

InitAll == InitWith({MixPad}, {RelOnly})

SpecAll == InitAll /\ [][Next]_vars

\* The prober on one node with any of a few identities and names.
\* "", "Pad", "Gamepad", "Joystick", "Wireless Ctrl" with a byte of 255
IdNames ==
  { <<>>, PadName3, <<71, 97, 109, 101, 112, 97, 100>>,
    <<74, 111, 121, 115, 116, 105, 99, 107>>,
    <<87, 105, 114, 101, 108, 101, 115, 115, 32, 67, 116, 114, 255>> }
IdWords == {0, 1118, 43981}

IdDevices ==
  { [PlainPad EXCEPT !.id = [bustype |-> b, vendor |-> v, product |-> p, version |-> w],
                     !.name = n, !.nameErr = BOOLEAN] :
    b \in {3, 4660}, v \in IdWords, p \in IdWords, w \in IdWords, n \in IdNames }

InitId == InitWith(IdDevices, {RelOnly})

SpecId == InitId /\ [][NextMap]_vars

\* ================================================================ claims
IsReport(e) == e.kind = "event" /\ e.typ = EV_SYN /\ e.code = SYN_REPORT
SetObs(g, o) == [g EXCEPT !.buttons = o.buttons, !.axes = o.axes, !.hats = o.hats]
IoctlErrors ==
  {"evBits", "keyBits", "absBits", "id", "ioctl abs at openGamepad",
   "ioctl abs at pollAbsState"}
\* the step called openGamepad, the open and the four queries of lines 121-132
\* succeeded
Probed(l) == l.exit \in {136, 197, 208, 211}

\* C1: while the dropped flag of a gamepad is set, no step changes its buttons,
\* axes or hats, or clears the flag, except the read of the report-complete
\* event by its update; the flag and the state persist between update calls.
C1_DroppedDiscards ==
  [][ \A i \in 1 .. Len(gamepads) :
        (gamepads[i].dropped
         /\ ~(pc.at = "update" /\ pc.i = i /\ IsReport(last'.e)))
        => /\ Len(gamepads') >= i
           /\ Obs(gamepads'[i]) = Obs(gamepads[i])
           /\ gamepads'[i].dropped ]_vars

\* C1 witness: update has just read, with dropped set, a key or axis event
\* that would have changed the state had it been applied.
C1_Witness ==
  /\ pc.at = "update"
  /\ gamepads[pc.i].dropped
  /\ last.e.kind = "event" /\ last.e.typ \in {EV_KEY, EV_ABS}
  /\ ~EventPanics(gamepads[pc.i], last.e)
  /\ Obs(Apply(gamepads[pc.i], last.e)) # Obs(gamepads[pc.i])

\* C2: when update reads report-complete with dropped set, dropped is cleared
\* and the buttons, axes and hats are those that pollAbsState yields, with
\* the same answers of the device, on the state the gamepad had at the
\* overflow: the events discarded in between leave no trace.
C2_ResyncAfterDrop ==
  [][ (pc.at = "update" /\ gamepads[pc.i].dropped /\ IsReport(last'.e))
      => LET g == gamepads[pc.i]
             atOverflow == SetObs([g EXCEPT !.dropped = FALSE], atDrop[g.path].obs)
             fresh == pollAbsState(atOverflow, last'.rep, last'.failCode).g
         IN  /\ ~gamepads'[pc.i].dropped
             /\ Obs(gamepads'[pc.i]) = Obs(fresh) ]_vars

\* C2 witness: report-complete was just read after an overflow and discarded
\* events, and the resynchronization changed the state of the overflow.
C2_Witness ==
  /\ pc.at = "update" /\ IsReport(last.e)
  /\ ~gamepads[pc.i].dropped
  /\ atDrop[gamepads[pc.i].path].skipped
  /\ last.failCode = -1
  /\ Obs(gamepads[pc.i]) # atDrop[gamepads[pc.i].path].obs

\* C3: an openGamepad call in which a kernel control call fails leaves the
\* registry as it was.
C3_FailedProbeRegistersNothing ==
  [][ (last'.exit # 0 /\ last'.perr \in IoctlErrors) => gamepads' = gamepads ]_vars

\* C4: when the read of update reports "no such device", the handle is closed
\* and the registry holds no entry with the gamepad's path after the update.
C4_DisconnectRemoves ==
  [][ (pc.at = "update" /\ last'.e.kind = "ENODEV")
      => /\ fds'[gamepads[pc.i].fd] = NoFile
         /\ find(gamepads', gamepads[pc.i].path) = 0 ]_vars

\* C5: a handle of a registry entry that is not the sentinel 0 is open, is
\* the descriptor of the entry's own device node, and is the handle of no
\* other entry.
C5_HandlesOwned ==
  \A i \in 1 .. Len(gamepads) :
    gamepads[i].fd # 0 =>
      /\ fds[gamepads[i].fd] # NoFile
      /\ fds[gamepads[i].fd].path = gamepads[i].path
      /\ \A j \in 1 .. Len(gamepads) : j # i => gamepads[j].fd # gamepads[i].fd

\* C6: no two entries of the registry have the same path.
C6_PathsUnique ==
  \A i, j \in 1 .. Len(gamepads) : i # j => gamepads[i].path # gamepads[j].path

\* C6 witness: two entries are registered and a notification for a path of the
\* registry has just been probed (the return of line 97).
C6_Witness ==
  /\ Len(gamepads) = 2
  /\ last.op = "watcher" /\ last.exit = 97

\* C7: after a probe that registered a device, the button indices are a
\* bijection from the key codes of the bitmap onto 0..buttonCount-1 and no
\* absent key code has a valid index; likewise the axis indices for the
\* codes outside the hat range; each hat pair with a code in the bitmap has
\* one index of 0..hatCount-1 that both of its codes map to, and the pairs
\* without a code have none.
C7_DenseIndices ==
  last.exit = 211 =>
    LET g == gamepads[find(gamepads, last.path)]
        d == dev[last.path]
        allKeys == BTN_MISC .. (KEY_CNT - 1)
        keys == {c \in allKeys : isBitSet(d.key, c)}
        plain == {c \in AbsCodes : ~IsHatCode(c)}
        axs == {c \in plain : isBitSet(d.abs, c)}
        X(k) == ABS_HAT0X + 2 * k
        Y(k) == ABS_HAT0X + 2 * k + 1
        pairs == {k \in 0 .. 3 : isBitSet(d.abs, X(k)) \/ isBitSet(d.abs, Y(k))}
    IN  /\ g.buttonCount_ = Cardinality(keys)
        /\ {g.keyMap[c - BTN_MISC] : c \in keys} = 0 .. (g.buttonCount_ - 1)
        /\ \A c \in allKeys \ keys :
             g.keyMap[c - BTN_MISC] \notin 0 .. (g.buttonCount_ - 1)
        /\ g.axisCount_ = Cardinality(axs)
        /\ {g.absMap[c] : c \in axs} = 0 .. (g.axisCount_ - 1)
        /\ \A c \in plain \ axs : g.absMap[c] \notin 0 .. (g.axisCount_ - 1)
        /\ g.hatCount_ = Cardinality(pairs)
        /\ {g.absMap[X(k)] : k \in pairs} = 0 .. (g.hatCount_ - 1)
        /\ \A k \in pairs : g.absMap[Y(k)] = g.absMap[X(k)]
        /\ \A k \in (0 .. 3) \ pairs :
             /\ g.absMap[X(k)] \notin 0 .. (g.hatCount_ - 1)
             /\ g.absMap[Y(k)] \notin 0 .. (g.hatCount_ - 1)

\* what the rejection of a probed device is: no entry, the handle closed again,
\* no error
Rejected == gamepads' = gamepads /\ fds' = fds /\ last'.perr = "nil"

\* C8 as stated: a device that was opened and queried is rejected if it has
\* neither EV_KEY nor EV_ABS, and is registered if it has one of the two.
C8_RejectsOnlyWithNeither ==
  [][ Probed(last') =>
        IF ~isBitSet(dev[last'.path].ev, EV_KEY) /\ ~isBitSet(dev[last'.path].ev, EV_ABS)
        THEN Rejected
        ELSE find(gamepads', last'.path) # 0 ]_vars

\* C8 amended: a device that was opened and queried is rejected if it lacks
\* EV_KEY or lacks EV_ABS, and an entry with its path is added to the registry
\* if it has both.
C8_RejectsWithoutBoth ==
  [][ Probed(last') =>
        IF ~isBitSet(dev[last'.path].ev, EV_KEY) \/ ~isBitSet(dev[last'.path].ev, EV_ABS)
        THEN Rejected
        ELSE find(gamepads, last'.path) = 0 /\ find(gamepads', last'.path) # 0 ]_vars

\* C8 witness: a device with EV_KEY and without EV_ABS has just been rejected
\* by the return of line 136/140.
C8_Witness ==
  /\ last.exit = 136
  /\ isBitSet(dev[last.path].ev, EV_KEY)
  /\ ~isBitSet(dev[last.path].ev, EV_ABS)
  /\ find(gamepads, last.path) = 0

\* C9: handleAbsEvent on a code outside the hat range whose stored calibration
\* has minimum = maximum leaves the axis at its previous value, for a live
\* event and for the resynchronizer.
C9_DegenerateKeepsAxis ==
  [][ (pc.at = "update" /\ last'.e.kind = "event")
      => LET g == gamepads[pc.i]
             h == gamepads'[pc.i]
             c == last'.e.code
         IN  /\ (~g.dropped /\ last'.e.typ = EV_ABS /\ ~IsHatCode(c)
                 /\ g.absInfo[c].minimum = g.absInfo[c].maximum)
                => h.axes[g.absMap[c]] = g.axes[g.absMap[c]]
             /\ (IsReport(last'.e) /\ last'.failCode = -1)
                => \A k \in AbsCodes :
                     (~IsHatCode(k) /\ g.absMap[k] >= 0
                      /\ last'.rep[k].minimum = last'.rep[k].maximum)
                     => h.axes[g.absMap[k]] = g.axes[g.absMap[k]] ]_vars

\* C10: every axis value that axisValue returns lies in [-1, 1].
C10_AxesInRange ==
  \A i \in 1 .. Len(gamepads) :
    \A a \in 0 .. (gamepads[i].axisCount_ - 1) :
      LET v == axisValue(gamepads[i], a)
      IN  -v.den <= v.num /\ v.num <= v.den

\* the left/right and the up/down part of a hat mask
LeftRight(h) == <<HasBit(h, hatLeft), HasBit(h, hatRight)>>
UpDown(h) == <<HasBit(h, hatUp), HasBit(h, hatDown)>>
\* the part an axis value sets: <<negative direction, positive direction>>
Direction(value) == <<value < 0, value > 0>>

\* C11: after every step no hat mask has left and right both set, nor up and
\* down both set; a hat X event that update applies sets the left/right bits
\* of its hat from the sign of the value and leaves its up/down bits, and a
\* hat Y event sets the up/down bits and leaves the left/right bits.
C11_HatsExclusive ==
  [][ /\ \A i \in 1 .. Len(gamepads') : \A h \in 0 .. (HatLen - 1) :
           /\ LeftRight(gamepads'[i].hats[h]) # <<TRUE, TRUE>>
           /\ UpDown(gamepads'[i].hats[h]) # <<TRUE, TRUE>>
      /\ (pc.at = "update" /\ ~gamepads[pc.i].dropped
          /\ last'.e.kind = "event" /\ last'.e.typ = EV_ABS
          /\ IsHatCode(last'.e.code) /\ last'.err # "panic")
         => LET g == gamepads[pc.i]
                idx == g.absMap[last'.e.code]
                old == g.hats[idx]
                new == gamepads'[pc.i].hats[idx]
            IN  IF (last'.e.code - ABS_HAT0X) % 2 = 0
                THEN LeftRight(new) = Direction(last'.e.value) /\ UpDown(new) = UpDown(old)
                ELSE UpDown(new) = Direction(last'.e.value) /\ LeftRight(new) = LeftRight(old)
    ]_vars

\* C11 witness: update has just applied a negative X value to a hat that holds
\* a down direction: the mask is left and down.
C11_Witness ==
  /\ pc.at = "update" /\ last.e.kind = "event" /\ last.e.typ = EV_ABS
  /\ last.e.code = ABS_HAT0X /\ last.e.value < 0
  /\ ~gamepads[pc.i].dropped
  /\ gamepads[pc.i].hats[gamepads[pc.i].absMap[ABS_HAT0X]] = hatLeft + hatDown

\* C12: in update, a read that fails with ENODEV returns nil, closes the handle
\* and sets it to 0; a read that fails with EAGAIN returns nil and changes
\* nothing; any other read error is returned.  An update of a gamepad whose
\* handle is 0 returns nil, reads nothing and changes nothing, and the handle
\* of an entry stays 0 as long as the entry is in the registry.
C12_DisconnectIsCleanClose ==
  [][ /\ (pc.at = "update" /\ last'.e.kind # "event")
         => LET g == gamepads[pc.i]
            IN  /\ pc' = Idle
                /\ IF last'.e.kind = "ENODEV"
                   THEN /\ last'.err = "nil"
                        /\ fds'[g.fd] = NoFile
                        /\ gamepads' = [gamepads EXCEPT ![pc.i].fd = 0]
                   ELSE IF last'.e.kind = "EAGAIN"
                   THEN last'.err = "nil" /\ gamepads' = gamepads /\ fds' = fds
                   ELSE last'.err # "nil" /\ gamepads' = gamepads /\ fds' = fds
      /\ \A i \in 1 .. Len(gamepads) :
           gamepads[i].fd = 0
           => /\ (pc.at = "idle" /\ last'.op = "update" /\ last'.path = gamepads[i].path)
                 => /\ last'.err = "nil" /\ last'.e.kind = "none"
                    /\ pc' = pc /\ gamepads' = gamepads /\ fds' = fds
              /\ \A j \in 1 .. Len(gamepads') :
                   gamepads'[j].path = gamepads[i].path => gamepads'[j].fd = 0
    ]_vars

\* C12 witness: a gamepad that a read with ENODEV closed has just been updated
\* again, and nothing was read.
C12_Witness ==
  /\ pc = Idle /\ last.op = "update" /\ last.err = "nil" /\ last.e.kind = "none"
  /\ find(gamepads, last.path) # 0
  /\ gamepads[find(gamepads, last.path)].fd = 0

\* C13: when the pollAbsState that update runs on a report-complete event
\* fails, the step of update ends the call with an error; when the
\* pollAbsState of openGamepad fails, openGamepad returns an error.
C13_ResyncFailureSurfaces ==
  [][ /\ (pc.at = "update" /\ IsReport(last'.e)
          /\ pollAbsState(gamepads[pc.i], last'.rep, last'.failCode).err # "nil")
         => last'.err \notin {"nil", "running"}
      /\ last'.exit = 208 => last'.perr # "nil" /\ last'.err # "nil"
    ]_vars

\* C14: a step of the watcher's loop on a notification whose name matches the
\* pattern makes one openGamepad call with that path for a create or attribute
\* change; for a delete of a registered path it closes the entry's handle and
\* removes that entry and no other; for a delete of a path that is not
\* registered it changes nothing.  A notification whose name does not match
\* changes nothing.
C14_WatcherDispatch ==
  [][ pc.at = "watch"
      => LET e == pc.buf[1]
             i == find(gamepads, e.name)
             nothing == gamepads' = gamepads /\ fds' = fds /\ last'.exit = 0
         IN  IF ~reEventMatch(e.name) THEN nothing
             ELSE IF e.mask \cap {"IN_CREATE", "IN_ATTRIB"} # {}
             THEN last'.exit # 0 /\ last'.path = e.name
             ELSE IF "IN_DELETE" \in e.mask /\ i # 0
             THEN /\ last'.exit = 0
                  /\ Len(gamepads') = Len(gamepads) - 1
                  /\ \A k \in 1 .. Len(gamepads') :
                       gamepads'[k] = gamepads[IF k < i THEN k ELSE k + 1]
                  /\ \A fd \in FdRange :
                       fds'[fd] = IF fd = gamepads[i].fd THEN NoFile ELSE fds[fd]
             ELSE nothing
    ]_vars

\* C14 witness: a delete notification has just removed the entry of its path,
\* one of two.
C14_Witness ==
  /\ last.op = "watcher" /\ last.idx # 0
  /\ find(gamepads, last.path) = 0
  /\ Len(gamepads) = 1

\* C15: an openGamepad call for a path that the registry holds returns nil at
\* line 97, opens nothing and leaves the registry, with every field of the
\* entry, and the descriptor table unchanged.
C15_KnownPathIsNoOp ==
  [][ (last'.exit # 0 /\ find(gamepads, last'.path) # 0)
      => /\ last'.exit = 97 /\ last'.perr = "nil"
         /\ gamepads' = gamepads
         /\ fds' = fds ]_vars

\* C15 witness: a notification has just probed the path of an entry whose
\* handle a disconnection had closed.
C15_Witness ==
  /\ last.exit = 97
  /\ find(gamepads, last.path) # 0
  /\ gamepads[find(gamepads, last.path)].fd = 0

\* the mappings and counts that openGamepad assigns
Mapping(g) ==
  [keyMap |-> g.keyMap, absMap |-> g.absMap, axisCount_ |-> g.axisCount_,
   buttonCount_ |-> g.buttonCount_, hatCount_ |-> g.hatCount_]

\* C16: no step changes the keyMap, absMap, axisCount, buttonCount or hatCount
\* of an entry that is in the registry before and after the step.
C16_MappingsFixed ==
  [][ \A i \in 1 .. Len(gamepads) : \A j \in 1 .. Len(gamepads') :
        gamepads'[j].path = gamepads[i].path
        => Mapping(gamepads'[j]) = Mapping(gamepads[i]) ]_vars

\* C16 witness: a gamepad that updates with a key event and a disconnection
\* have gone over still has its button and axis mapped.
C16_Witness ==
  \E i \in 1 .. Len(gamepads) :
    /\ gamepads[i].fd = 0
    /\ gamepads[i].buttonCount_ = 1 /\ gamepads[i].buttons[0]
    /\ gamepads[i].keyMap[BTN_A - BTN_MISC] = 0
    /\ gamepads[i].axisCount_ = 1 /\ gamepads[i].absMap[ABS_X] = 0

\* the value of a pair of hexadecimal digits
HexVal(ch) == CHOOSE k \in 0 .. 15 : HexDigits[k + 1] = ch
\* the 16 bytes that 32 hexadecimal digits write
Decode(s) == [k \in 1 .. 16 |-> 16 * HexVal(s[2 * k - 1]) + HexVal(s[2 * k])]
\* a 16-bit field, low byte first
LowHigh(w) == <<w % ByteRange, w \div ByteRange>>
\* the 16 bytes of the identifier of a device with identity id and name name
Layout(id, name) ==
  IF id.vendor # 0 /\ id.product # 0 /\ id.version # 0
  THEN LowHigh(id.bustype) \o <<0, 0>> \o LowHigh(id.vendor) \o <<0, 0>>
       \o LowHigh(id.product) \o <<0, 0>> \o LowHigh(id.version) \o <<0, 0>>
  ELSE LowHigh(id.bustype) \o <<0, 0>>
       \o [k \in 1 .. SdlNameLen |-> IF k <= Len(name) THEN name[k] ELSE 0]

\* C17: the identifier of a registered device has 32 lowercase hexadecimal
\* digits and writes the layout of the device's bus type, vendor, product,
\* version and name ("Unknown" when the name query failed): the four fields
\* low byte first, each followed by 0000, when vendor, product and version are
\* not 0, else the bus type, 0000 and the name padded or cut to 12 bytes.
C17_IdLayout ==
  last.exit = 211 =>
    LET g == gamepads[find(gamepads, last.path)]
        d == dev[last.path]
        name == IF last.nameFails THEN Unknown ELSE d.name
    IN  /\ Len(g.sdlID) = 32
        /\ \A k \in 1 .. Len(g.sdlID) : \E j \in 1 .. 16 : g.sdlID[k] = HexDigits[j]
        /\ Decode(g.sdlID) = Layout(d.id, name)

\* C18: a hat Y value that update applies sets the up/down bits of the hat
\* whose index was assigned to the X code of the same pair, and changes no
\* other hat; after a resynchronization that succeeded, the hat of each pair
\* shows the X and the Y value the device reported for that pair.
C18_HatYOwnPair ==
  [][ (pc.at = "update" /\ ~gamepads[pc.i].dropped /\ last'.e.kind = "event")
      => LET g == gamepads[pc.i]
             h == gamepads'[pc.i]
             c == last'.e.code
         IN  /\ (last'.e.typ = EV_ABS /\ IsHatCode(c) /\ (c - ABS_HAT0X) % 2 = 1
                 /\ isBitSet(dev[g.path].abs, c - 1))
                => /\ UpDown(h.hats[g.absMap[c - 1]]) = Direction(last'.e.value)
                   /\ \A k \in 0 .. (HatLen - 1) :
                        k # g.absMap[c - 1] => h.hats[k] = g.hats[k]
             /\ (IsReport(last'.e) /\ last'.failCode = -1)
                => \A x \in {ABS_HAT0X, ABS_HAT1X} :
                     (isBitSet(dev[g.path].abs, x) /\ isBitSet(dev[g.path].abs, x + 1))
                     => /\ LeftRight(h.hats[g.absMap[x]]) = Direction(last'.rep[x].value)
                        /\ UpDown(h.hats[g.absMap[x]]) = Direction(last'.rep[x + 1].value)
    ]_vars

\* C19: in a registered gamepad the keyMap entry of a key code that the key
\* bitmap does not hold is no valid button index; a key event that update
\* applies sets the button of its code to (value # 0) and changes no other
\* button when the bitmap holds the code, and else changes no button and does
\* not make update fail.
C19_UnmappedKeysIgnored ==
  [][ /\ last'.exit = 211
         => LET g == gamepads'[find(gamepads', last'.path)]
            IN  \A c \in (BTN_MISC .. (KEY_CNT - 1)) \ dev[last'.path].key :
                  g.keyMap[c - BTN_MISC] \notin 0 .. (g.buttonCount_ - 1)
      /\ (pc.at = "update" /\ ~gamepads[pc.i].dropped
          /\ last'.e.kind = "event" /\ last'.e.typ = EV_KEY)
         => LET g == gamepads[pc.i]
                c == last'.e.code
            IN  IF c >= BTN_MISC /\ isBitSet(dev[g.path].key, c)
                THEN gamepads'[pc.i].buttons =
                       [g.buttons EXCEPT ![g.keyMap[c - BTN_MISC]] = (last'.e.value # 0)]
                ELSE /\ last'.err = "running"
                     /\ gamepads'[pc.i].buttons = g.buttons
    ]_vars

\* a delete notification for a path that the registry gs holds
DeleteOfRegistered(n, gs) ==
  reEventMatch(n.name) /\ n.mask = {"IN_DELETE"} /\ find(gs, n.name) # 0

\* C20: the watcher's update returns only after the last notification that it
\* read from the channel: none is left unprocessed, and so no delete
\* notification of the batch is left for a path that the registry still holds.
C20_BatchFullyProcessed ==
  [][ (pc.at = "watch" /\ pc'.at # "watch")
      => /\ Len(pc.buf) = 1
         /\ \A k \in 2 .. Len(pc.buf) : ~DeleteOfRegistered(pc.buf[k], gamepads')
    ]_vars

====
